---------------------------- MODULE Spec2Model ----------------------------
(***************************************************************************)
(* A model of the strategy back-tester of backend/app.py: the ISO week     *)
(* key (get_iso_week), the expanding-window PE percentile                  *)
(* (calculate_pe_quantile), the earnings matcher (match_epsTTM_by_date)    *)
(* and the four-strategy simulation (run_strategy).                        *)
(*                                                                         *)
(* Numbers.  Python floats are modelled as exact rationals <<n, d>> with   *)
(* d > 0 in lowest terms.  round_decimal(x, 2) is modelled by its result   *)
(* counted in hundredths (an integer), so a ledger figure 12.34 is the     *)
(* integer 1234.                                                           *)
(***************************************************************************)
EXTENDS Integers, Sequences, FiniteSets, TLC

VARIABLES
    \* get_iso_week under test
    week_dates,              \* the two date objects handed to get_iso_week
    week_keys,               \* the two keys it returned (<<>> before the call)
    \* calculate_pe_quantile under test
    pe_list,                 \* the input series
    quantiles,               \* the returned list (<<>> before the call)
    \* match_epsTTM_by_date under test
    eps_date,                \* the date string handed to it
    eps_ttm_map,             \* the quarter -> earnings mapping handed to it
    eps_value,               \* what it returned (<<>> before the call)
    \* run_strategy
    calls,                   \* the number of invocations started so far
    raw_index,               \* how many records the filter loop has read
    first,                   \* what the first invocation was given and returned
    pc,                      \* position in run_strategy
    params,                  \* the params dict
    raw_data,                \* the records of raw_data read so far
    data,                    \* the per-run rows (the ledger)
    idx,                     \* index of the row the current loop is at
    logs,
    buy_once_shares,
    normal_invest_shares, normal_invest_total, normal_invested_weeks,
    normal_available_cash,
    base_shares, float_shares, base_cash, base_total_invest,
    base_invested_weeks,
    valuation_base_shares, valuation_float_shares, valuation_cash,
    valuation_total_invest,
    buy_sell_markers,
    result                   \* the returned dict (NoResult before the return)

weekVars == <<week_dates, week_keys>>
quantVars == <<pe_list, quantiles>>
epsVars == <<eps_date, eps_ttm_map, eps_value>>
callVars == <<calls, raw_index, first>>
normalVars == <<normal_invest_shares, normal_invest_total,
                normal_invested_weeks, normal_available_cash>>
baseVars == <<base_shares, float_shares, base_cash, base_total_invest,
              base_invested_weeks>>
valuationVars == <<valuation_base_shares, valuation_float_shares,
                   valuation_cash, valuation_total_invest, buy_sell_markers>>
runVars == <<callVars, pc, params, raw_data, data, idx, logs, buy_once_shares,
             normalVars, baseVars, valuationVars, result>>
vars == <<weekVars, quantVars, epsVars, runVars>>

-----------------------------------------------------------------------------
(* Rational arithmetic: the model of Python's float arithmetic.            *)

Abs(x) == IF x < 0 THEN -x ELSE x

RECURSIVE GCD(_, _)
GCD(a, b) == IF b = 0 THEN a ELSE GCD(b, a % b)

\* The rational n/d (d # 0) in lowest terms with a positive denominator.
Rat(n, d) ==
    LET g == GCD(Abs(n), Abs(d))
        s == IF d < 0 THEN -1 ELSE 1
    IN  <<(s * n) \div g, (s * d) \div g>>

RInt(k) == <<k, 1>>
RAdd(a, b) == Rat(a[1] * b[2] + b[1] * a[2], a[2] * b[2])
RSub(a, b) == Rat(a[1] * b[2] - b[1] * a[2], a[2] * b[2])
RMul(a, b) == Rat(a[1] * b[1], a[2] * b[2])
RDiv(a, b) == Rat(a[1] * b[2], a[2] * b[1])
RLt(a, b) == a[1] * b[2] < b[1] * a[2]
RLe(a, b) == a[1] * b[2] <= b[1] * a[2]
RMin(a, b) == IF RLe(b, a) THEN b ELSE a
RZero == RInt(0)

\* round_decimal(value, 2): Decimal.quantize(0.01, ROUND_HALF_UP), ties away
\* from zero.  The result is counted in hundredths.
round_decimal(value) ==
    LET n == Abs(value[1]) * 100
        d == value[2]
        q == (2 * n + d) \div (2 * d)
    IN  IF value[1] < 0 THEN -q ELSE q

\* A ledger figure (hundredths) read back as a number.
Hundredths(h) == Rat(h, 100)

-----------------------------------------------------------------------------
(* Calendar dates: a date object is <<year, month, day>>.  isocalendar is  *)
(* datetime.date.isocalendar of the Python standard library.               *)

IsLeap(y) == (y % 4 = 0) /\ ((y % 100 # 0) \/ (y % 400 = 0))

DaysInMonth(y, m) ==
    IF m = 2 THEN (IF IsLeap(y) THEN 29 ELSE 28)
    ELSE IF m \in {4, 6, 9, 11} THEN 30 ELSE 31

RECURSIVE DaysBeforeMonth(_, _)
DaysBeforeMonth(y, m) ==
    IF m = 1 THEN 0 ELSE DaysBeforeMonth(y, m - 1) + DaysInMonth(y, m - 1)

DaysBeforeYear(y) ==
    LET p == y - 1 IN p * 365 + p \div 4 - p \div 100 + p \div 400

\* Proleptic Gregorian ordinal: 0001-01-01 is day 1.
Ymd2Ord(date) ==
    DaysBeforeYear(date[1]) + DaysBeforeMonth(date[1], date[2]) + date[3]

\* Monday = 0 .. Sunday = 6.
Weekday(date) == (Ymd2Ord(date) + 6) % 7

IsoWeek1Monday(y) ==
    LET firstday == Ymd2Ord(<<y, 1, 1>>)
        firstweekday == (firstday + 6) % 7
        week1monday == firstday - firstweekday
    IN  IF firstweekday > 3 THEN week1monday + 7 ELSE week1monday

\* <<ISO year, ISO week number, ISO weekday>>.
isocalendar(date) ==
    LET year == date[1]
        today == Ymd2Ord(date)
        week == (today - IsoWeek1Monday(year)) \div 7
        wd == Weekday(date) + 1
    IN  IF week < 0
        THEN <<year - 1, (today - IsoWeek1Monday(year - 1)) \div 7 + 1, wd>>
        ELSE IF week >= 52 /\ today >= IsoWeek1Monday(year + 1)
             THEN <<year + 1, 1, wd>>
             ELSE <<year, week + 1, wd>>

DateLe(a, b) ==
    \/ a[1] < b[1]
    \/ a[1] = b[1] /\ a[2] < b[2]
    \/ a[1] = b[1] /\ a[2] = b[2] /\ a[3] <= b[3]

NextDay(date) ==
    IF date[3] < DaysInMonth(date[1], date[2])
    THEN <<date[1], date[2], date[3] + 1>>
    ELSE IF date[2] < 12 THEN <<date[1], date[2] + 1, 1>>
         ELSE <<date[1] + 1, 1, 1>>

RECURSIVE AddDays(_, _)
AddDays(date, k) == IF k = 0 THEN date ELSE AddDays(NextDay(date), k - 1)

\* get_iso_week: f"{date_obj.year}{week_num:02d}".  A four-digit year followed
\* by two digits is the decimal numeral of year*100 + week.
get_iso_week(date_obj) ==
    LET week_num == isocalendar(date_obj)[2]
    IN  date_obj[1] * 100 + week_num

-----------------------------------------------------------------------------
(* calculate_pe_quantile.  PE values are integers here; a percentile       *)
(* cut-point is kept multiplied by 100, so that numpy's linear             *)
(* interpolation a[lo] + g*(a[hi]-a[lo]) with g a multiple of 1/100 stays  *)
(* an integer.                                                              *)

MinSeries == 21
WarmUp == 20
MinValid == 5

\* Cut-points taken at the next higher value instead of interpolated.
Percentile100_higher(sorted, k) ==
    LET m == Len(sorted)
        h == (m - 1) * k
        hi == IF h % 100 = 0 THEN h \div 100 ELSE (h \div 100) + 1
    IN  100 * sorted[hi + 1]

\* np.percentile(valid_history, np.arange(0, 101))[k], times 100: linear
\* interpolation at the virtual index (m-1)*k/100 of the sorted history.
Percentile100(sorted, k) ==
    LET m == Len(sorted)
        h == (m - 1) * k
        lo == h \div 100
        g == h % 100
        hi == IF lo + 1 < m THEN lo + 1 ELSE lo
    IN  100 * sorted[lo + 1] + g * (sorted[hi + 1] - sorted[lo + 1])

\* side='right': the number of cut-points <= the value.
searchsorted_right(sorted, current_pe) ==
    Cardinality({k \in 0..100 : Percentile100(sorted, k) <= 100 * current_pe})

\* np.searchsorted(percentiles, current_pe), side='left': the number of
\* cut-points strictly below the value.
searchsorted(sorted, current_pe) ==
    Cardinality({k \in 0..100 : Percentile100(sorted, k) < 100 * current_pe})

\* A history check that accepts any non-empty history.
enough_history_any(valid_history) == Len(valid_history) >= 1

\* line 239: `if len(valid_history) < 5: continue`, negated.
enough_history(valid_history) == Len(valid_history) >= MinValid

IsPositive(x) == x > 0

\* The body of the loop at index i (0-based): the value written to
\* quantiles[i], 0 when the iteration `continue`s.
QuantileAt(list, i) ==
    LET current_pe == list[i + 1]
        valid_history == SelectSeq(SubSeq(list, 1, i + 1), IsPositive)
        sorted == SortSeq(valid_history, <)
        q == Rat(searchsorted(sorted, current_pe), 100)
    IN  IF current_pe <= 0 THEN 0
        ELSE IF ~enough_history(valid_history) THEN 0
        ELSE round_decimal(RMin(RMul(q, RInt(100)), RInt(100)))

calculate_pe_quantile(list) ==
    [j \in 1..Len(list) |->
        IF Len(list) < MinSeries \/ j - 1 < WarmUp THEN 0
        ELSE QuantileAt(list, j - 1)]

-----------------------------------------------------------------------------
(* Idle values of the variables a specification does not use.              *)

NoResult == [pending |-> TRUE]
NoParams == [none |-> TRUE]

WeekIdle == week_dates = <<>> /\ week_keys = <<>>
QuantIdle == pe_list = <<>> /\ quantiles = <<>>
EpsIdle == eps_date = <<>> /\ eps_ttm_map = <<>> /\ eps_value = <<>>
NoFirst == [none |-> TRUE]
RunIdle ==
    /\ calls = 0 /\ raw_index = 0 /\ first = NoFirst
    /\ pc = "idle" /\ params = NoParams /\ raw_data = <<>> /\ data = <<>>
    /\ idx = 0 /\ logs = <<>> /\ buy_once_shares = RZero
    /\ normal_invest_shares = RZero /\ normal_invest_total = RZero
    /\ normal_invested_weeks = {} /\ normal_available_cash = RZero
    /\ base_shares = RZero /\ float_shares = RZero /\ base_cash = RZero
    /\ base_total_invest = RZero /\ base_invested_weeks = {}
    /\ valuation_base_shares = RZero /\ valuation_float_shares = RZero
    /\ valuation_cash = RZero /\ valuation_total_invest = RZero
    /\ buy_sell_markers = <<>> /\ result = NoResult

-----------------------------------------------------------------------------
(* SpecWeek: get_iso_week applied to two dates around a year boundary.     *)

FirstYear == 2024
YearSpan == 3
EdgeDays == 8

WeekDates ==
    {<<y, 12, d>> : y \in FirstYear..(FirstYear + YearSpan - 1),
                    d \in (32 - EdgeDays)..31}
    \cup {<<y, 1, d>> : y \in FirstYear..(FirstYear + YearSpan - 1),
                        d \in 1..EdgeDays}

InitWeek ==
    /\ week_dates \in WeekDates \X WeekDates
    /\ week_keys = <<>>
    /\ QuantIdle /\ EpsIdle /\ RunIdle

CallGetIsoWeek ==
    /\ week_keys = <<>>
    /\ week_keys' = <<get_iso_week(week_dates[1]), get_iso_week(week_dates[2])>>
    /\ UNCHANGED <<week_dates, quantVars, epsVars, runVars>>

NextWeek == CallGetIsoWeek

SpecWeek == InitWeek /\ [][NextWeek]_vars

SameIsoWeek(a, b) ==
    /\ isocalendar(a)[1] = isocalendar(b)[1]
    /\ isocalendar(a)[2] = isocalendar(b)[2]

\* C4: get_iso_week gives two dates the same key if and only if they lie in
\* the same ISO week of the same ISO year.
C4_SameKeyIffSameIsoWeek ==
    week_keys # <<>> =>
        ((week_keys[1] = week_keys[2])
            <=> SameIsoWeek(week_dates[1], week_dates[2]))

-----------------------------------------------------------------------------
(* SpecQuantile: calculate_pe_quantile applied to a series made of a       *)
(* warm-up of WarmUp values (zeros, then ones, then threes: the values at  *)
(* later indices depend on the warm-up only through its multiset) and a    *)
(* tail of up to MaxTail values.                                           *)

MaxTail == 2
TailValues == {-1, 1, 2, 3, 4}

WarmUpSeries(zeros, ones) ==
    [j \in 1..WarmUp |->
        IF j <= zeros THEN 0 ELSE IF j <= zeros + ones THEN 1 ELSE 3]

Tails == UNION {[1..n -> TailValues] : n \in 0..MaxTail}

QuantileInputs ==
    {WarmUpSeries(z, o) \o t :
        z \in 0..WarmUp, o \in 0..WarmUp, t \in Tails}

InitQuantile ==
    /\ pe_list \in QuantileInputs
    /\ quantiles = <<>>
    /\ WeekIdle /\ EpsIdle /\ RunIdle

CallCalculatePeQuantile ==
    /\ quantiles = <<>>
    /\ pe_list # <<>>
    /\ quantiles' = calculate_pe_quantile(pe_list)
    /\ UNCHANGED <<pe_list, weekVars, epsVars, runVars>>

NextQuantile == CallCalculatePeQuantile

SpecQuantile == InitQuantile /\ [][NextQuantile]_vars

\* The positive values of v[0..i] (i 0-based), sorted.
ValidSorted(list, i) == SortSeq(SelectSeq(SubSeq(list, 1, i + 1), IsPositive), <)

\* The lowest position k in 0..100 whose cut-point is >= v[i].
LowestPosition(list, i) ==
    LET s == ValidSorted(list, i)
        at == {k \in 0..100 : Percentile100(s, k) >= 100 * list[i + 1]}
    IN  CHOOSE k \in at : \A k2 \in at : k <= k2

Rankable(list, i) ==
    list[i + 1] > 0 /\ Len(ValidSorted(list, i)) >= MinValid

Returned == quantiles # <<>>

\* C6 as stated: in a series of at least 21 values every rankable index,
\* those below 20 included, gets the lowest position whose cut-point is >= v[i].
C6_RankAtEveryIndex ==
    (Returned /\ Len(pe_list) >= MinSeries) =>
        \A i \in 0..(Len(pe_list) - 1) :
            Rankable(pe_list, i) =>
                quantiles[i + 1] = 100 * LowestPosition(pe_list, i)

\* C6 amended: in a series of at least 21 values every rankable index i >= 20
\* gets the lowest position k in 0..100 whose k-th percentile cut-point of the
\* positive values of v[0..i] is >= v[i]; q[i] is 0 only when i < 20, v[i] is
\* non-positive, fewer than 5 positive values exist in v[0..i], the series has
\* fewer than 21 values, or that rank is 0.
C6_RankFromWarmUp ==
    Returned =>
        \A i \in 0..(Len(pe_list) - 1) :
            /\ (Len(pe_list) >= MinSeries /\ i >= WarmUp /\ Rankable(pe_list, i))
                  => quantiles[i + 1] = 100 * LowestPosition(pe_list, i)
            /\ quantiles[i + 1] = 0 =>
                  \/ i < WarmUp
                  \/ ~Rankable(pe_list, i)
                  \/ Len(pe_list) < MinSeries
                  \/ LowestPosition(pe_list, i) = 0

\* A rankable index at or after the warm-up, with a rank strictly between 0
\* and 100, has been computed.
C6_Witness ==
    /\ Returned /\ Len(pe_list) > WarmUp
    /\ Rankable(pe_list, WarmUp)
    /\ quantiles[WarmUp + 1] > 0 /\ quantiles[WarmUp + 1] < 10000

\* C7: every q[i] lies in [0, 100]; q[i] = 0 at every index below 20, at every
\* index with fewer than 5 positive values in v[0..i] and at every index whose
\* own value is non-positive; the output is as long as the input.
C7_RangeAndZeros ==
    Returned =>
        /\ Len(quantiles) = Len(pe_list)
        /\ \A i \in 0..(Len(pe_list) - 1) :
              /\ quantiles[i + 1] >= 0 /\ quantiles[i + 1] <= 10000
              /\ (i < WarmUp
                  \/ Len(ValidSorted(pe_list, i)) < MinValid
                  \/ pe_list[i + 1] <= 0) => quantiles[i + 1] = 0

\* A series of more than 20 values whose index 20 is positive with fewer
\* than 5 positive values so far, next to an index that is ranked.
C7_Witness ==
    /\ Returned /\ Len(pe_list) > WarmUp + 1
    /\ pe_list[WarmUp + 1] > 0
    /\ Len(ValidSorted(pe_list, WarmUp)) < MinValid
    /\ quantiles[WarmUp + 1] = 0
    /\ quantiles[WarmUp + 2] > 0

-----------------------------------------------------------------------------
(* run_strategy: the inputs.                                               *)
(*                                                                         *)
(* A date string is modelled by its three numeric fields <<y, m, d>>; a    *)
(* string strptime rejects is a tuple that names no calendar day (the      *)
(* empty string is <<>>).  A raw record carries the fields run_strategy    *)
(* reads: date (日期), close (收盘价), pe_quantile (PE分位点, in           *)
(* hundredths).  The ledger fields of a row are named                      *)
(*   buy_once_assets/_return/_profit/_invest   一次性买入总资产/收益率/    *)
(*                                             累计收益/累计投入           *)
(*   normal_...                                普通定投...                 *)
(*   base_...                                  底仓定投...                 *)
(*   valuation_assets/_return/_profit/_invest/_position/_signal            *)
(*                                             估值止盈总资产/总收益率/... *)
(*   marker                                    买卖标记                    *)
(* all money and percentage figures in hundredths.                         *)

MaxDays == 3

BadDate == <<0, 0, 0>>
EmptyDate == <<>>
BaseDate == <<2024, 12, 23>>

DefaultParams ==
    [initialCapital |-> 100, startDate |-> <<2024, 12, 1>>,
     endDate |-> <<2025, 3, 31>>, investAmount |-> 40, baseRatio |-> 50,
     feeRate |-> 10, peLowerQuantile |-> 30, peUpperQuantile |-> 70]

ParamChoices ==
    { DefaultParams,
      [DefaultParams EXCEPT !.startDate = <<2024, 12, 31>>, !.feeRate = 0,
                            !.investAmount = 30, !.baseRatio = 100],
      [DefaultParams EXCEPT !.startDate = <<2025, 6, 1>>,
                            !.endDate = <<2025, 6, 30>>],
      [DefaultParams EXCEPT !.startDate = BadDate],
      [DefaultParams EXCEPT !.endDate = EmptyDate] }

\* What a raw record can be, given the date of the record before it: the gap
\* in days to the previous record, the closing price and the percentile.  The
\* gap is tied to the percentile (the periodic strategies read date and price,
\* the valuation strategy percentile and price, so each strategy sees every
\* combination of its own inputs).
RowKinds ==
    {[gap |-> IF q \in {2000, 8000} THEN 1 ELSE 7, close |-> c, pe_quantile |-> q] :
        c \in {3, 7}, q \in {0, 2000, 5000, 8000}}

LastRawDate == IF raw_data = <<>> THEN BaseDate ELSE raw_data[Len(raw_data)].date

NextRawRows ==
    {[date |-> AddDays(LastRawDate, k.gap), close |-> k.close,
      pe_quantile |-> k.pe_quantile] : k \in RowKinds}
    \cup {[date |-> BadDate, close |-> 3, pe_quantile |-> 0]}

\* A string that names a calendar day (what strptime("%Y-%m-%d") accepts).
IsCalendarDay(date_str) ==
    /\ Len(date_str) = 3
    /\ date_str[1] \in 1..9999
    /\ date_str[2] \in 1..12
    /\ date_str[3] \in 1..DaysInMonth(date_str[1], date_str[2])

\* A to_valid_date that accepts every string.
to_valid_date_lenient(date_str) ==
    [ok |-> TRUE, date |-> IF Len(date_str) = 3 THEN date_str ELSE <<1, 1, 1>>]

\* to_valid_date: the date object, or ValueError (ok = FALSE) for an empty
\* string and for one strptime rejects.
to_valid_date(date_str) ==
    IF IsCalendarDay(date_str)
    THEN [ok |-> TRUE, date |-> date_str]
    ELSE [ok |-> FALSE]

\* lines 402-409: the parsed parameters.
initial_capital == RInt(params.initialCapital)
invest_amount == RInt(params.investAmount)
base_ratio == Rat(params.baseRatio, 100)
fee_rate == Rat(params.feeRate, 100)

\* A lower threshold read from the investment amount.
pe_lower_quantile_from_invest == RInt(params.investAmount)

pe_lower_quantile == RInt(params.peLowerQuantile)
pe_upper_quantile == RInt(params.peUpperQuantile)

\* A purchase that pays no fee.
OneMinusFeeWaived == RInt(1)

\* lines 461, 482, 505, 516, 538, 556, 575: (1 - fee_rate).
OneMinusFee == RSub(RInt(1), fee_rate)

\* A number with at most two decimals (the whole-unit capital), in hundredths.
ToHundredths(x) == (x[1] * 100) \div x[2]

\* lines 418-452: the per-run copy of a record with its ledger fields.
new_row(row) ==
    [date |-> row.date, close |-> row.close, pe_quantile |-> row.pe_quantile,
     buy_once_assets |-> ToHundredths(initial_capital), buy_once_return |-> 0,
     buy_once_profit |-> 0, buy_once_invest |-> ToHundredths(initial_capital),
     normal_assets |-> 0, normal_return |-> 0, normal_profit |-> 0,
     normal_invest |-> 0,
     base_assets |-> ToHundredths(initial_capital), base_return |-> 0,
     base_profit |-> 0, base_invest |-> 0,
     valuation_assets |-> ToHundredths(initial_capital), valuation_return |-> 0,
     valuation_profit |-> 0, valuation_invest |-> 0, valuation_position |-> 0,
     valuation_signal |-> "", marker |-> ""]

\* lines 641-648: the except branch.
FailWith(error) ==
    /\ logs' = Append(logs, "failed")
    /\ result' = [success |-> FALSE, logs |-> Append(logs, "failed"),
                  error |-> error]
    /\ pc' = "done"

strategyVars == <<buy_once_shares, normalVars, baseVars, valuationVars>>

InitRun ==
    /\ pc = "start"
    /\ params \in ParamChoices
    /\ raw_data = <<>> /\ data = <<>> /\ idx = 0 /\ logs = <<>>
    /\ buy_once_shares = RZero
    /\ normal_invest_shares = RZero /\ normal_invest_total = RZero
    /\ normal_invested_weeks = {} /\ normal_available_cash = RZero
    /\ base_shares = RZero /\ float_shares = RZero /\ base_cash = RZero
    /\ base_total_invest = RZero /\ base_invested_weeks = {}
    /\ valuation_base_shares = RZero /\ valuation_float_shares = RZero
    /\ valuation_cash = RZero /\ valuation_total_invest = RZero
    /\ buy_sell_markers = <<>> /\ result = NoResult
    /\ calls = 1 /\ raw_index = 0 /\ first = NoFirst
    /\ WeekIdle /\ QuantIdle /\ EpsIdle

Init == InitRun

\* lines 399-411: parse the parameters.
ParseParams ==
    /\ pc = "start"
    /\ IF to_valid_date(params.startDate).ok /\ to_valid_date(params.endDate).ok
       THEN /\ logs' = Append(logs, "start")
            /\ pc' = "filter"
            /\ UNCHANGED result
       ELSE FailWith("date")
    /\ UNCHANGED <<params, raw_data, data, idx, strategyVars, weekVars, quantVars, epsVars, callVars>>

InRange(row_date) ==
    /\ DateLe(to_valid_date(params.startDate).date, row_date)
    /\ DateLe(row_date, to_valid_date(params.endDate).date)

\* A filter loop that adds the ledger fields to the caller's record itself.
FilterRowInPlace ==
    /\ pc = "filter"
    /\ \E row \in (IF raw_index < Len(raw_data) THEN {raw_data[raw_index + 1]}
                   ELSE IF calls = 1 /\ Len(raw_data) < MaxDays THEN NextRawRows
                   ELSE {}) :
        /\ IF ~to_valid_date(row.date).ok
           THEN /\ FailWith("date") /\ UNCHANGED data
                /\ raw_data' = IF raw_index < Len(raw_data) THEN raw_data
                               ELSE Append(raw_data, row)
           ELSE /\ data' = IF InRange(to_valid_date(row.date).date)
                           THEN Append(data, new_row(row)) ELSE data
                /\ raw_data' =
                      IF raw_index < Len(raw_data)
                      THEN [raw_data EXCEPT ![raw_index + 1] = new_row(row)]
                      ELSE Append(raw_data, new_row(row))
                /\ UNCHANGED <<pc, logs, result>>
    /\ raw_index' = raw_index + 1
    /\ UNCHANGED <<calls, first, params, idx, strategyVars, weekVars, quantVars,
                   epsVars>>

\* lines 415-453: one iteration of the filter loop over the next record of
\* raw_data.  The first invocation meets each record for the first time (the
\* caller's list is revealed record by record); a later invocation reads the
\* same list again.
FilterRow ==
    /\ pc = "filter"
    /\ \E row \in (IF raw_index < Len(raw_data) THEN {raw_data[raw_index + 1]}
                   ELSE IF calls = 1 /\ Len(raw_data) < MaxDays THEN NextRawRows
                   ELSE {}) :
        /\ raw_data' = IF raw_index < Len(raw_data) THEN raw_data
                       ELSE Append(raw_data, row)
        /\ IF ~to_valid_date(row.date).ok
           THEN FailWith("date") /\ UNCHANGED data
           ELSE /\ data' = IF InRange(to_valid_date(row.date).date)
                           THEN Append(data, new_row(row)) ELSE data
                /\ UNCHANGED <<pc, logs, result>>
    /\ raw_index' = raw_index + 1
    /\ UNCHANGED <<calls, first, params, idx, strategyVars, weekVars, quantVars,
                   epsVars>>

\* lines 455-462: raw_data is exhausted; fail on an empty range, else buy the
\* lump sum at the first row's price.
CheckData ==
    /\ pc = "filter"
    /\ raw_index = Len(raw_data)
    /\ IF data = <<>>
       THEN FailWith("empty") /\ UNCHANGED <<idx, buy_once_shares>>
       ELSE /\ logs' = Append(logs, "range")
            /\ buy_once_shares' =
                   RDiv(RMul(initial_capital, OneMinusFee), RInt(data[1].close))
            /\ idx' = 1
            /\ pc' = "buy_once"
            /\ UNCHANGED result
    /\ UNCHANGED <<params, raw_data, data, normalVars, baseVars, valuationVars,
                   weekVars, quantVars, epsVars, callVars>>

-----------------------------------------------------------------------------
(* run_strategy: the four strategy loops, one action per loop iteration.   *)

Price(row) == RInt(row.close)

\* profit and return as the code derives them from the rounded assets:
\* round_decimal(assets - initial_capital), round_decimal(profit / denom * 100).
ProfitOf(assets) == round_decimal(RSub(Hundredths(assets), initial_capital))
ReturnOf(profit, denominator) ==
    round_decimal(RMul(RDiv(Hundredths(profit), denominator), RInt(100)))

\* Total assets that leave the cash out.
TotalAssetsSharesOnly(shares, price, cash) == round_decimal(RMul(shares, price))

\* lines 492, 522, 597: round_decimal(shares * price + cash, 2).
TotalAssets(shares, price, cash) ==
    round_decimal(RAdd(RMul(shares, price), cash))

\* lines 463-466: one row of the lump-sum loop.
BuyOnceRow ==
    /\ pc = "buy_once"
    /\ idx <= Len(data)
    /\ LET row == data[idx]
           assets == round_decimal(RMul(buy_once_shares, Price(row)))
           profit == ProfitOf(assets)
       IN  data' = [data EXCEPT ![idx] =
                       [row EXCEPT !.buy_once_assets = assets,
                                   !.buy_once_profit = profit,
                                   !.buy_once_return =
                                       ReturnOf(profit, initial_capital)]]
    /\ idx' = idx + 1
    /\ UNCHANGED <<pc, params, raw_data, logs, strategyVars, result,
                   weekVars, quantVars, epsVars, callVars>>

\* A start of the periodic loop that keeps the weeks already invested in.
NormalStartKeepingWeeks ==
    /\ pc = "buy_once"
    /\ idx > Len(data)
    /\ logs' = Append(logs, "buy_once")
    /\ normal_invest_shares' = RZero
    /\ normal_invest_total' = RZero
    /\ normal_available_cash' = initial_capital
    /\ idx' = 1
    /\ pc' = "normal"
    /\ UNCHANGED <<params, raw_data, data, buy_once_shares,
                   normal_invested_weeks, baseVars, valuationVars, result,
                   weekVars, quantVars, epsVars, callVars>>

\* lines 467-473: the lump-sum log line and the periodic strategy's locals.
NormalStart ==
    /\ pc = "buy_once"
    /\ idx > Len(data)
    /\ logs' = Append(logs, "buy_once")
    /\ normal_invest_shares' = RZero
    /\ normal_invest_total' = RZero
    /\ normal_invested_weeks' = {}
    /\ normal_available_cash' = initial_capital
    /\ idx' = 1
    /\ pc' = "normal"
    /\ UNCHANGED <<params, raw_data, data, buy_once_shares, baseVars,
                   valuationVars, result, weekVars, quantVars, epsVars, callVars>>

\* The weekly gate without the cash test.
should_invest_any_cash(current_week, invested_weeks, cash) ==
    current_week \notin invested_weeks

\* The cash test without the weekly gate.
should_invest_every_day(current_week, invested_weeks, cash) ==
    RLe(invest_amount, cash)

\* The weekly gate with any positive cash.
should_invest_positive_cash(current_week, invested_weeks, cash) ==
    current_week \notin invested_weeks /\ RLt(RZero, cash)

\* lines 480, 514: a week not yet invested in and cash >= invest_amount.
should_invest(current_week, invested_weeks, cash) ==
    current_week \notin invested_weeks /\ RLe(invest_amount, cash)

\* lines 475-497: one row of the periodic-investment loop.
NormalRow ==
    /\ pc = "normal"
    /\ idx <= Len(data)
    /\ LET row == data[idx]
           current_week == get_iso_week(to_valid_date(row.date).date)
           buys == should_invest(current_week, normal_invested_weeks,
                                 normal_available_cash)
           actual_invest == RMin(invest_amount, normal_available_cash)
           buy_amount == RMul(actual_invest, OneMinusFee)
           shares == IF buys
                     THEN RAdd(normal_invest_shares, RDiv(buy_amount, Price(row)))
                     ELSE normal_invest_shares
           total == IF buys THEN RAdd(normal_invest_total, actual_invest)
                    ELSE normal_invest_total
           cash == IF buys THEN RSub(normal_available_cash, actual_invest)
                   ELSE normal_available_cash
           assets == TotalAssets(shares, Price(row), cash)
           profit == ProfitOf(assets)
       IN  /\ normal_invest_shares' = shares
           /\ normal_invest_total' = total
           /\ normal_available_cash' = cash
           /\ normal_invested_weeks' =
                  IF buys THEN normal_invested_weeks \cup {current_week}
                  ELSE normal_invested_weeks
           /\ logs' = IF ~buys /\ current_week \notin normal_invested_weeks
                         /\ RLt(normal_available_cash, invest_amount)
                      THEN Append(logs, "normal_cash_short") ELSE logs
           /\ data' = [data EXCEPT ![idx] =
                        [row EXCEPT !.normal_assets = assets,
                                    !.normal_invest = round_decimal(total),
                                    !.normal_profit = profit,
                                    !.normal_return =
                                        IF RLt(RZero, total)
                                        THEN ReturnOf(profit, total) ELSE 0]]
    /\ idx' = idx + 1
    /\ UNCHANGED <<pc, params, raw_data, buy_once_shares, baseVars,
                   valuationVars, result, weekVars, quantVars, epsVars, callVars>>

\* lines 498-508: the periodic log line and the base position of the
\* base-plus-periodic strategy, bought at the first row's price.
BaseStart ==
    /\ pc = "normal"
    /\ idx > Len(data)
    /\ logs' = Append(logs, "normal")
    /\ LET base_amount == RMul(initial_capital, base_ratio)
       IN  /\ base_shares' =
                  RDiv(RMul(base_amount, OneMinusFee), Price(data[1]))
           /\ base_cash' = RSub(initial_capital, base_amount)
           /\ base_total_invest' = base_amount
    /\ float_shares' = RZero
    /\ base_invested_weeks' = {}
    /\ idx' = 1
    /\ pc' = "base"
    /\ UNCHANGED <<params, raw_data, data, buy_once_shares, normalVars,
                   valuationVars, result, weekVars, quantVars, epsVars, callVars>>

\* lines 510-527: one row of the base-plus-periodic loop.
BaseRow ==
    /\ pc = "base"
    /\ idx <= Len(data)
    /\ LET row == data[idx]
           current_week == get_iso_week(to_valid_date(row.date).date)
           buys == should_invest(current_week, base_invested_weeks, base_cash)
           buy_amount == RMul(invest_amount, OneMinusFee)
           floats == IF buys
                     THEN RAdd(float_shares, RDiv(buy_amount, Price(row)))
                     ELSE float_shares
           total == IF buys THEN RAdd(base_total_invest, invest_amount)
                    ELSE base_total_invest
           cash == IF buys THEN RSub(base_cash, invest_amount) ELSE base_cash
           total_shares == RAdd(base_shares, floats)
           assets == TotalAssets(total_shares, Price(row), cash)
           profit == ProfitOf(assets)
       IN  /\ float_shares' = floats
           /\ base_total_invest' = total
           /\ base_cash' = cash
           /\ base_invested_weeks' =
                  IF buys THEN base_invested_weeks \cup {current_week}
                  ELSE base_invested_weeks
           /\ data' = [data EXCEPT ![idx] =
                        [row EXCEPT !.base_assets = assets,
                                    !.base_invest = round_decimal(total),
                                    !.base_profit = profit,
                                    !.base_return =
                                        ReturnOf(profit, initial_capital)]]
    /\ idx' = idx + 1
    /\ UNCHANGED <<pc, params, raw_data, logs, base_shares, buy_once_shares,
                   normalVars, valuationVars, result, weekVars, quantVars, epsVars, callVars>>

\* lines 528-540: the base log line and the base position of the valuation
\* strategy: min(capital * 0.5, capital) at the first row's price.
ValuationStart ==
    /\ pc = "base"
    /\ idx > Len(data)
    /\ logs' = Append(logs, "base")
    /\ LET valuation_base_amount ==
               RMin(RMul(initial_capital, Rat(1, 2)), initial_capital)
       IN  /\ valuation_base_shares' =
                  RDiv(RMul(valuation_base_amount, OneMinusFee), Price(data[1]))
           /\ valuation_cash' = RSub(initial_capital, valuation_base_amount)
           /\ valuation_total_invest' = valuation_base_amount
    /\ valuation_float_shares' = RZero
    /\ buy_sell_markers' = <<>>
    /\ idx' = 1
    /\ pc' = "valuation"
    /\ UNCHANGED <<params, raw_data, data, buy_once_shares, normalVars,
                   baseVars, result, weekVars, quantVars, epsVars, callVars>>

\* lines 561-570, 579-588: the TradeEvent appended on a buy or a sell.  It is
\* built before the row's valuation ledger is written (lines 594-605), so
\* row.valuation_assets still holds the value new_row gave it.
TradeEvent(row, type) ==
    [date |-> row.date, type |-> type,
     buyOnceReturn |-> row.buy_once_return,
     normalReturn |-> row.normal_return,
     baseReturn |-> row.base_return,
     valuationReturn |->
         round_decimal(RMul(RDiv(RSub(Hundredths(row.valuation_assets),
                                      initial_capital),
                                 initial_capital), RInt(100)))]

\* A buy that deploys half of what the caps allow.
valuation_buy_half(floats, cash, total_invest, price) ==
    LET max_buyable == RSub(initial_capital, total_invest)
        actual_buy == RMul(RMin(cash, max_buyable), Rat(1, 2))
        buy_amount == RMul(actual_buy, OneMinusFee)
    IN  [float_shares |-> RAdd(floats, RDiv(buy_amount, price)),
         cash |-> RSub(cash, actual_buy),
         total_invest |-> RAdd(total_invest, actual_buy)]

\* lines 550-558: the buy, capped by the cash and by the headroom
\* initial_capital - valuation_total_invest.
valuation_buy(floats, cash, total_invest, price) ==
    LET max_buyable == RSub(initial_capital, total_invest)
        actual_buy == RMin(cash, max_buyable)
        buy_amount == RMul(actual_buy, OneMinusFee)
    IN  [float_shares |-> RAdd(floats, RDiv(buy_amount, price)),
         cash |-> RSub(cash, actual_buy),
         total_invest |-> RAdd(total_invest, actual_buy)]

\* A sell that keeps the float position.
valuation_sell_keeping_float(floats, cash, total_invest, price) ==
    [float_shares |-> floats,
     cash |-> RAdd(cash, RMul(RMul(floats, price), OneMinusFee)),
     total_invest |-> total_invest]

\* A sell that takes the proceeds off the invested amount.
valuation_sell_net_invest(floats, cash, total_invest, price) ==
    [float_shares |-> RZero,
     cash |-> RAdd(cash, RMul(RMul(floats, price), OneMinusFee)),
     total_invest |-> RSub(total_invest, RMul(RMul(floats, price), OneMinusFee))]

\* A sell whose proceeds pay no fee.
valuation_sell_gross(floats, cash, total_invest, price) ==
    [float_shares |-> RZero,
     cash |-> RAdd(cash, RMul(floats, price)),
     total_invest |-> total_invest]

\* lines 574-576: the sell of the whole float position.
valuation_sell(floats, cash, total_invest, price) ==
    [float_shares |-> RZero,
     cash |-> RAdd(cash, RMul(RMul(floats, price), OneMinusFee)),
     total_invest |-> total_invest]

\* lines 548, 551, 573: which branch a row takes.
ValuationBranch(row) ==
    LET pe_quantile == Hundredths(row.pe_quantile)
    IN  IF RLt(pe_quantile, pe_lower_quantile) /\ RLt(RZero, valuation_cash)
        THEN IF RLe(RSub(initial_capital, valuation_total_invest), RZero)
             THEN "full" ELSE "buy"
        ELSE IF RLt(pe_upper_quantile, pe_quantile)
                /\ RLt(RZero, valuation_float_shares)
             THEN "sell"
             ELSE IF RLt(RZero, pe_quantile) THEN "hold" ELSE "no_data"

\* lines 542-605: one row of the valuation-band loop.
ValuationRow ==
    /\ pc = "valuation"
    /\ idx <= Len(data)
    /\ LET row == data[idx]
           branch == ValuationBranch(row)
           held == [float_shares |-> valuation_float_shares,
                    cash |-> valuation_cash,
                    total_invest |-> valuation_total_invest]
           after ==
               IF branch = "buy"
               THEN valuation_buy(valuation_float_shares, valuation_cash,
                                  valuation_total_invest, Price(row))
               ELSE IF branch = "sell"
               THEN valuation_sell(valuation_float_shares, valuation_cash,
                                   valuation_total_invest, Price(row))
               ELSE held
           total_valuation_shares ==
               RAdd(valuation_base_shares, after.float_shares)
           valuation_position_value == RMul(total_valuation_shares, Price(row))
           assets == TotalAssets(total_valuation_shares, Price(row), after.cash)
           profit == ProfitOf(assets)
       IN  /\ valuation_float_shares' = after.float_shares
           /\ valuation_cash' = after.cash
           /\ valuation_total_invest' = after.total_invest
           /\ buy_sell_markers' =
                  IF branch \in {"buy", "sell"}
                  THEN Append(buy_sell_markers, TradeEvent(row, branch))
                  ELSE buy_sell_markers
           /\ logs' = IF branch \in {"buy", "sell"}
                      THEN Append(logs, branch) ELSE logs
           /\ data' = [data EXCEPT ![idx] =
                        [row EXCEPT
                           !.marker = IF branch \in {"buy", "sell"}
                                      THEN branch ELSE "",
                           !.valuation_signal = branch,
                           !.valuation_assets = assets,
                           !.valuation_invest = round_decimal(after.total_invest),
                           !.valuation_profit = profit,
                           !.valuation_return =
                               IF RLt(RZero, after.total_invest)
                               THEN ReturnOf(profit, after.total_invest) ELSE 0,
                           !.valuation_position =
                               IF assets > 0
                               THEN round_decimal(
                                        RMul(RDiv(valuation_position_value,
                                                  Hundredths(assets)), RInt(100)))
                               ELSE 0]]
    /\ idx' = idx + 1
    /\ UNCHANGED <<pc, params, raw_data, valuation_base_shares,
                   buy_once_shares, normalVars, baseVars, result,
                   weekVars, quantVars, epsVars, callVars>>

\* lines 650-674: the series generate_chart_data extracts (the Plotly layout
\* around them is left out).
generate_chart_data(rows, markers) ==
    [dates |-> [i \in 1..Len(rows) |-> rows[i].date],
     buy_once_return |-> [i \in 1..Len(rows) |-> rows[i].buy_once_return],
     normal_return |-> [i \in 1..Len(rows) |-> rows[i].normal_return],
     base_return |-> [i \in 1..Len(rows) |-> rows[i].base_return],
     valuation_return |-> [i \in 1..Len(rows) |-> rows[i].valuation_return],
     markers |-> markers]

\* lines 607-639: the summary of the last row and the successful return.
Finish ==
    /\ pc = "valuation"
    /\ idx > Len(data)
    /\ logs' = Append(logs, "valuation")
    /\ LET final_row == data[Len(data)]
       IN  result' =
             [success |-> TRUE,
              logs |-> Append(logs, "valuation"),
              result_summary |->
                [buy_once |-> <<final_row.buy_once_return,
                                final_row.buy_once_profit>>,
                 normal |-> <<final_row.normal_return, final_row.normal_profit>>,
                 base |-> <<final_row.base_return, final_row.base_profit>>,
                 valuation |-> <<final_row.valuation_return,
                                 final_row.valuation_profit,
                                 final_row.valuation_position>>],
              chart_data |-> generate_chart_data(data, buy_sell_markers)]
    /\ pc' = "done"
    /\ UNCHANGED <<params, raw_data, data, idx, strategyVars, weekVars, quantVars, epsVars, callVars>>

Next ==
    \/ ParseParams
    \/ FilterRow
    \/ CheckData
    \/ BuyOnceRow
    \/ NormalStart
    \/ NormalRow
    \/ BaseStart
    \/ BaseRow
    \/ ValuationStart
    \/ ValuationRow
    \/ Finish

Spec == Init /\ [][Next]_vars

-----------------------------------------------------------------------------
(* SpecTwice: run_strategy invoked again by its caller (api_analyze_strategy *)
(* calls it once per request) on the same records: a second time with the   *)
(* same parameters or with other parameters of the periodic, base and       *)
(* valuation strategies, and then a third time with the first parameters.   *)
(* The locals of the strategies are left as the previous invocation left    *)
(* them until run_strategy assigns them.                                    *)

MaxDaysTwice == 2

\* Parameter sets that differ from p in the investment amount, the base
\* ratio and the thresholds only.
OtherParams(p) ==
    { [p EXCEPT !.peLowerQuantile = 60, !.peUpperQuantile = 90,
                !.baseRatio = 20],
      [p EXCEPT !.investAmount = 60, !.baseRatio = 20],
      [p EXCEPT !.peLowerQuantile = 60, !.peUpperQuantile = 90] }

\* line 1238 and lines 397-399, 414: the caller invokes run_strategy again;
\* logs and data start empty.
CallAgain ==
    /\ pc = "done"
    /\ \/ calls = 1
       \/ calls = 2 /\ params # first.params
    /\ calls' = calls + 1
    /\ first' = IF calls = 1
                THEN [params |-> params, data |-> data, result |-> result]
                ELSE first
    /\ params' \in IF calls = 1 THEN OtherParams(params) \cup {params}
                   ELSE {first.params}
    /\ pc' = "start"
    /\ raw_index' = 0
    /\ logs' = <<>>
    /\ data' = <<>>
    /\ idx' = 0
    /\ result' = NoResult
    /\ UNCHANGED <<raw_data, strategyVars, weekVars, quantVars, epsVars>>

InitTwice == InitRun

NextTwice ==
    \/ ParseParams
    \/ (raw_index < Len(raw_data) \/ Len(raw_data) < MaxDaysTwice) /\ FilterRow
    \/ CheckData
    \/ BuyOnceRow
    \/ NormalStart
    \/ NormalRow
    \/ BaseStart
    \/ BaseRow
    \/ ValuationStart
    \/ ValuationRow
    \/ Finish
    \/ CallAgain

SpecTwice == InitTwice /\ [][NextTwice]_vars

-----------------------------------------------------------------------------
(* SpecEps: match_epsTTM_by_date applied to a date string and a mapping     *)
(* from quarter keys to earnings.  A quarter key is <<year, quarter>>; the  *)
(* key string f"{year}-Q{quarter}" is its sequence of character codes, and  *)
(* sorted(keys, reverse=True) orders the key strings as Python orders       *)
(* strings.  Earnings are counted in hundredths.                            *)

EpsQuarters == 3
EpsValues == {5, 9}

RECURSIVE Digits(_)
Digits(n) ==
    IF n < 10 THEN <<48 + n>> ELSE Append(Digits(n \div 10), 48 + (n % 10))

\* f"{year}-Q{quarter}" ('-' is 45, 'Q' is 81, '0' is 48).
KeyString(key) == Digits(key[1]) \o <<45, 81>> \o Digits(key[2])

\* Python's str <: code point by code point, a proper prefix first.
RECURSIVE StrLess(_, _)
StrLess(a, b) ==
    IF b = <<>> THEN FALSE
    ELSE IF a = <<>> THEN TRUE
    ELSE IF Head(a) # Head(b) THEN Head(a) < Head(b)
    ELSE StrLess(Tail(a), Tail(b))

\* lines 302-304: sorted(eps_ttm_map.keys(), reverse=True), whose first key
\* the loop returns at once.
first_sorted_key(keys) ==
    CHOOSE k \in keys :
        \A k2 \in keys \ {k} : StrLess(KeyString(k2), KeyString(k))

\* line 296: the quarter of a month.
QuarterOf(month) == ((month - 1) \div 3) + 1

\* lines 286-308; 0 stands for the 0.0 of an empty mapping and of the except
\* branch.
match_epsTTM_by_date(date_str, map) ==
    IF DOMAIN map = {} THEN 0
    ELSE IF ~to_valid_date(date_str).ok THEN 0
    ELSE LET date_obj == to_valid_date(date_str).date
             target_key == <<date_obj[1], QuarterOf(date_obj[2])>>
         IN  IF target_key \in DOMAIN map THEN map[target_key]
             ELSE map[first_sorted_key(DOMAIN map)]

\* The i-th quarter counted from 2023-Q3 (i = 0).
QuarterAt(i) == <<2023 + ((2 + i) \div 4), ((2 + i) % 4) + 1>>

EpsKeys == {QuarterAt(i) : i \in 0..(EpsQuarters - 1)}

EpsMaps == UNION {[keys -> EpsValues] : keys \in SUBSET EpsKeys}

\* A day in each quarter from the one before the first key to the one after
\* the last, and a string that is no date.
EpsDates ==
    {<<QuarterAt(i)[1], 3 * QuarterAt(i)[2] - 1, 15>> : i \in -1..EpsQuarters}
    \cup {BadDate}

InitEps ==
    /\ eps_date \in EpsDates
    /\ eps_ttm_map \in EpsMaps
    /\ eps_value = <<>>
    /\ WeekIdle /\ QuantIdle /\ RunIdle

CallMatchEps ==
    /\ eps_value = <<>>
    /\ eps_value' = <<match_epsTTM_by_date(eps_date, eps_ttm_map)>>
    /\ UNCHANGED <<eps_date, eps_ttm_map, weekVars, quantVars, runVars>>

NextEps == CallMatchEps

SpecEps == InitEps /\ [][NextEps]_vars

\* Quarter a is at or before quarter b.
QuarterLe(a, b) == a[1] < b[1] \/ (a[1] = b[1] /\ a[2] <= b[2])

\* The quarters of the mapping at or before the quarter containing the date.
QuartersUpTo(date, map) ==
    {k \in DOMAIN map : QuarterLe(k, <<date[1], QuarterOf(date[2])>>)}

\* C11: for a date and a mapping that holds at least one quarter at or before
\* the quarter containing the date, match_epsTTM_by_date returns the earnings
\* of the most recent such quarter, never those of a later quarter.
C11_MostRecentQuarterAtOrBefore ==
    (eps_value # <<>> /\ IsCalendarDay(eps_date)
       /\ QuartersUpTo(eps_date, eps_ttm_map) # {}) =>
        LET upto == QuartersUpTo(eps_date, eps_ttm_map)
            latest == CHOOSE k \in upto : \A k2 \in upto : QuarterLe(k2, k)
        IN  eps_value[1] = eps_ttm_map[latest]

-----------------------------------------------------------------------------
(* Properties of run_strategy.                                             *)

Succeeded == pc = "done" /\ result.success
Failed ==
    /\ pc = "done"
    /\ ~result.success
    /\ DOMAIN result = {"success", "logs", "error"}

\* The loops in the order they run: 1 lump sum, 2 periodic, 3 base plus
\* periodic, 4 valuation band.
Stage ==
    IF pc = "buy_once" THEN 1
    ELSE IF pc = "normal" THEN 2
    ELSE IF pc = "base" THEN 3
    ELSE IF pc = "valuation" THEN 4
    ELSE IF Succeeded THEN 5
    ELSE 0

\* The number of rows whose ledger loop k has written.  The locals of loop k
\* are those of row RowsDone(k) (they change only in that loop), and every row
\* is the last one written in some state of the run.
RowsDone(k) ==
    IF Stage > k THEN Len(data) ELSE IF Stage = k THEN idx - 1 ELSE 0

Cent == Rat(1, 100)
WithinCent(recorded, exact) ==
    /\ RLe(RSub(Hundredths(recorded), exact), Cent)
    /\ RLe(RSub(exact, Hundredths(recorded)), Cent)

\* C1: on every day the recorded total assets of each strategy are within 0.01
\* of shares * price + cash: lump sum shares*price, periodic shares*price +
\* cash, base plus periodic and valuation band (base+float)*price + cash.
C1_AssetsAreSharesTimesPricePlusCash ==
    /\ RowsDone(1) >= 1 =>
          LET row == data[RowsDone(1)]
          IN  WithinCent(row.buy_once_assets, RMul(buy_once_shares, Price(row)))
    /\ RowsDone(2) >= 1 =>
          LET row == data[RowsDone(2)]
          IN  WithinCent(row.normal_assets,
                         RAdd(RMul(normal_invest_shares, Price(row)),
                              normal_available_cash))
    /\ RowsDone(3) >= 1 =>
          LET row == data[RowsDone(3)]
          IN  WithinCent(row.base_assets,
                         RAdd(RMul(RAdd(base_shares, float_shares), Price(row)),
                              base_cash))
    /\ RowsDone(4) >= 1 =>
          LET row == data[RowsDone(4)]
          IN  WithinCent(row.valuation_assets,
                         RAdd(RMul(RAdd(valuation_base_shares,
                                        valuation_float_shares), Price(row)),
                              valuation_cash))

\* A successful run in which the periodic strategy holds shares and cash and
\* its recorded assets are a rounded figure, and the valuation band has traded.
C1_Witness ==
    /\ Succeeded
    /\ RLt(RZero, normal_invest_shares) /\ RLt(RZero, normal_available_cash)
    /\ RAdd(RMul(normal_invest_shares, Price(data[Len(data)])),
            normal_available_cash)
          # Hundredths(data[Len(data)].normal_assets)
    /\ buy_sell_markers # <<>>

\* C2: the cumulative amount invested never exceeds the initial capital, for
\* the running totals of the periodic, base-plus-periodic and valuation-band
\* strategies and for every invested figure recorded in the ledger.
C2_InvestedWithinCapital ==
    /\ Stage >= 2 => RLe(normal_invest_total, initial_capital)
    /\ Stage >= 3 => RLe(base_total_invest, initial_capital)
    /\ Stage >= 4 => RLe(valuation_total_invest, initial_capital)
    /\ \A i \in 1..Len(data) :
          /\ data[i].buy_once_invest <= ToHundredths(initial_capital)
          /\ data[i].normal_invest <= ToHundredths(initial_capital)
          /\ data[i].base_invest <= ToHundredths(initial_capital)
          /\ data[i].valuation_invest <= ToHundredths(initial_capital)

\* A successful run in which the periodic strategy ran short of cash for a
\* further buy and the valuation band has deployed the whole capital.
C2_Witness ==
    /\ Succeeded
    /\ "normal_cash_short" \in {logs[i] : i \in 1..Len(logs)}
    /\ valuation_total_invest = initial_capital

\* C3: for each strategy the invested figure recorded in the ledger does not
\* decrease from one day to the next.
C3_InvestedNonDecreasing ==
    /\ \A i \in 1..(RowsDone(1) - 1) :
          data[i].buy_once_invest <= data[i + 1].buy_once_invest
    /\ \A i \in 1..(RowsDone(2) - 1) :
          data[i].normal_invest <= data[i + 1].normal_invest
    /\ \A i \in 1..(RowsDone(3) - 1) :
          data[i].base_invest <= data[i + 1].base_invest
    /\ \A i \in 1..(RowsDone(4) - 1) :
          data[i].valuation_invest <= data[i + 1].valuation_invest

\* A successful run of at least two days with a valuation-band sell after the
\* first day and a periodic buy after the first day.
C3_Witness ==
    /\ Succeeded
    /\ \E i \in 2..Len(data) :
          data[i].marker = "sell"
    /\ \E i \in 2..Len(data) :
          data[i].normal_invest > data[i - 1].normal_invest

RowDate(i) == to_valid_date(data[i].date).date

NormalBought(i) ==
    data[i].normal_invest > (IF i = 1 THEN 0 ELSE data[i - 1].normal_invest)

BaseBought(i) ==
    data[i].base_invest >
        (IF i = 1 THEN round_decimal(RMul(initial_capital, base_ratio))
         ELSE data[i - 1].base_invest)

\* C5: in the periodic and in the base-plus-periodic strategy no two days with
\* a periodic buy lie in the same ISO week of the same ISO year.
C5_OneBuyPerIsoWeek ==
    /\ \A i, j \in 1..RowsDone(2) :
          (i < j /\ NormalBought(i) /\ NormalBought(j))
              => ~SameIsoWeek(RowDate(i), RowDate(j))
    /\ \A i, j \in 1..RowsDone(3) :
          (i < j /\ BaseBought(i) /\ BaseBought(j))
              => ~SameIsoWeek(RowDate(i), RowDate(j))

RowOfDate(date) == CHOOSE i \in 1..Len(data) : data[i].date = date

\* C8: every TradeEvent carries the four strategies' ledger return ratios of
\* its date.
C8_TradeEventCarriesLedgerReturns ==
    Succeeded =>
        \A n \in 1..Len(buy_sell_markers) :
            LET event == buy_sell_markers[n]
                row == data[RowOfDate(event.date)]
            IN  /\ event.buyOnceReturn = row.buy_once_return
                /\ event.normalReturn = row.normal_return
                /\ event.baseReturn = row.base_return
                /\ event.valuationReturn = row.valuation_return

PeOf(i) == Hundredths(data[i].pe_quantile)

\* The percentile is below lower on day d1, above upper on the later day d2
\* and inside [lower, upper] on every other day.
CrossesOnce(d1, d2) ==
    /\ d1 < d2
    /\ RLt(PeOf(d1), pe_lower_quantile)
    /\ RLt(pe_upper_quantile, PeOf(d2))
    /\ \A i \in 1..Len(data) \ {d1, d2} :
          RLe(pe_lower_quantile, PeOf(i)) /\ RLe(PeOf(i), pe_upper_quantile)

EventsSoFar ==
    [n \in 1..Len(buy_sell_markers) |->
        <<buy_sell_markers[n].date, buy_sell_markers[n].type>>]

\* C9: with capital > 0, 0 <= fee < 1 and lower < upper, when the percentile
\* is below lower on one day d1, above upper on one later day d2 and inside
\* the band otherwise, the TradeEvents are exactly a buy at d1 then a sell at
\* d2, and the float shares are zero on d2 and on every later day.
C9_OneBuyThenOneSell ==
    \A d1, d2 \in 1..Len(data) :
        (/\ Stage >= 4 /\ CrossesOnce(d1, d2)
         /\ RLt(RZero, initial_capital)
         /\ RLe(RZero, fee_rate) /\ RLt(fee_rate, RInt(1))
         /\ RLt(pe_lower_quantile, pe_upper_quantile)) =>
            /\ RowsDone(4) < d1 => EventsSoFar = <<>>
            /\ (d1 <= RowsDone(4) /\ RowsDone(4) < d2) =>
                   EventsSoFar = << <<data[d1].date, "buy">> >>
            /\ RowsDone(4) >= d2 =>
                   /\ EventsSoFar = << <<data[d1].date, "buy">>,
                                       <<data[d2].date, "sell">> >>
                   /\ valuation_float_shares = RZero

\* A finished run whose percentile crossed below then above the band, with at
\* least one day after the sell.
C9_Witness ==
    /\ Succeeded
    /\ \E d1, d2 \in 1..Len(data) : CrossesOnce(d1, d2) /\ d2 < Len(data)
    /\ Len(buy_sell_markers) = 2

BadParamDate ==
    ~IsCalendarDay(params.startDate) \/ ~IsCalendarDay(params.endDate)
BadRowDate == \E i \in 1..Len(raw_data) : ~IsCalendarDay(raw_data[i].date)

NothingComputed ==
    /\ buy_once_shares = RZero
    /\ normal_invest_total = RZero /\ normal_available_cash = RZero
    /\ base_total_invest = RZero /\ base_cash = RZero
    /\ valuation_total_invest = RZero /\ valuation_cash = RZero
    /\ buy_sell_markers = <<>>
    /\ \A i \in 1..Len(logs) : logs[i] \in {"start", "failed"}

\* C10: an unparseable startDate, endDate or record date, or an empty range,
\* ends the run with a returned {success: false, error} that has no summary
\* and no chart data; on an empty range nothing of the four strategies has
\* been computed or logged.
C10_FailuresAreReturned ==
    /\ pc = "done" => "success" \in DOMAIN result
    /\ (pc # "start" /\ BadParamDate) => Failed
    /\ BadRowDate => Failed
    /\ (pc \notin {"start", "filter"} /\ data = <<>>) =>
          Failed /\ NothingComputed
    /\ (pc = "done" /\ ~BadParamDate /\ ~BadRowDate /\ data = <<>>) =>
          result.error = "empty"

\* A run over records that all lie outside [start, end] has ended.
C10_Witness ==
    /\ pc = "done" /\ ~BadParamDate /\ ~BadRowDate
    /\ data = <<>> /\ Len(raw_data) >= 2
    /\ ~result.success

Capital100 == ToHundredths(initial_capital)

\* C12: the lump sum buys once on day 0: on every day d its assets are
\* round2(capital * (1 - fee) / price[0] * price[d]), invested is the capital,
\* profit is assets - capital and return% is profit / capital * 100 (a ledger
\* figure of two decimals); with fee 0 and the price of day 0 the assets are
\* the capital and return% is 0.  The shares are capital * (1 - fee) / price[0].
C12_LumpSumBuysOnceOnDayZero ==
    LET shares == RDiv(RMul(initial_capital, RSub(RInt(1), fee_rate)),
                       Price(data[1]))
    IN  /\ Stage >= 1 => buy_once_shares = shares
        /\ \A d \in 1..RowsDone(1) :
              LET row == data[d]
              IN  /\ row.buy_once_assets = round_decimal(RMul(shares, Price(row)))
                  /\ row.buy_once_invest = Capital100
                  /\ row.buy_once_profit = row.buy_once_assets - Capital100
                  /\ row.buy_once_return =
                         round_decimal(RMul(RDiv(Hundredths(row.buy_once_profit),
                                                 initial_capital), RInt(100)))
                  /\ (fee_rate = RZero /\ row.close = data[1].close) =>
                         /\ row.buy_once_assets = Capital100
                         /\ row.buy_once_return = 0

\* The lump-sum loop has written a later day at another price, with a fee
\* paid on day 0 and assets that are a rounded figure.
C12_Witness ==
    /\ Stage >= 2 /\ Len(data) >= 2
    /\ RLt(RZero, fee_rate)
    /\ data[2].close # data[1].close
    /\ Hundredths(data[2].buy_once_assets)
          # RMul(buy_once_shares, Price(data[2]))
    /\ data[2].buy_once_profit < 0

\* The rows up to row i all closed at the price of the first row.
ConstantPriceUpTo(i) == \A j \in 1..i : data[j].close = data[1].close

\* C13: a step of the periodic strategy on a day whose week key has no
\* recorded buy and with cash >= investAmount buys exactly investAmount
\* (shares += investAmount * (1 - fee) / price, cash -= investAmount,
\* invested += investAmount, the week key is recorded); on every other day
\* shares, cash, invested and the set of week keys are unchanged.  Hence
\* after buys in n weeks invested is n * investAmount and cash is capital -
\* invested, and with fee 0 and a constant price shares are invested / price.
C13_PeriodicStepRule ==
    [][(pc = "normal" /\ idx <= Len(data)) =>
          LET row == data[idx]
              week == get_iso_week(RowDate(idx))
              net == RMul(invest_amount, RSub(RInt(1), fee_rate))
          IN  /\ IF week \notin normal_invested_weeks
                    /\ RLe(invest_amount, normal_available_cash)
                 THEN /\ normal_invest_shares' =
                            RAdd(normal_invest_shares, RDiv(net, Price(row)))
                      /\ normal_available_cash' =
                            RSub(normal_available_cash, invest_amount)
                      /\ normal_invest_total' =
                            RAdd(normal_invest_total, invest_amount)
                      /\ normal_invested_weeks' =
                            normal_invested_weeks \cup {week}
                 ELSE UNCHANGED normalVars
              /\ normal_invest_total' =
                    RMul(RInt(Cardinality(normal_invested_weeks')), invest_amount)
              /\ normal_available_cash' =
                    RSub(initial_capital, normal_invest_total')
              /\ (fee_rate = RZero /\ ConstantPriceUpTo(idx)) =>
                    normal_invest_shares' =
                        RDiv(normal_invest_total', Price(row))
      ]_vars

\* The periodic loop has passed three days: two with a buy and one on which
\* the week was new but the cash fell short of investAmount.
C13_Witness ==
    /\ Stage >= 3 /\ Len(data) = 3
    /\ Cardinality(normal_invested_weeks) = 2
    /\ "normal_cash_short" \in {logs[i] : i \in 1..Len(logs)}
    /\ RLt(RZero, normal_available_cash)

LumpSumLedger(rows) ==
    [i \in 1..Len(rows) |->
        <<rows[i].buy_once_assets, rows[i].buy_once_return,
          rows[i].buy_once_profit, rows[i].buy_once_invest>>]
PeriodicLedger(rows) ==
    [i \in 1..Len(rows) |->
        <<rows[i].normal_assets, rows[i].normal_return,
          rows[i].normal_profit, rows[i].normal_invest>>]
BasePlusLedger(rows) ==
    [i \in 1..Len(rows) |->
        <<rows[i].base_assets, rows[i].base_return,
          rows[i].base_profit, rows[i].base_invest>>]
ValuationLedger(rows) ==
    [i \in 1..Len(rows) |->
        <<rows[i].valuation_assets, rows[i].valuation_return,
          rows[i].valuation_profit, rows[i].valuation_invest,
          rows[i].valuation_position, rows[i].valuation_signal,
          rows[i].marker>>]

\* The second invocation has returned a ledger, as the first did.
BothSucceeded == calls = 2 /\ Succeeded /\ first.result.success

\* C14: of two runs on the same records, capital, fee and date range, the
\* lump-sum ledgers are equal whatever the investment amount, base ratio and
\* thresholds of the two runs; the periodic ledgers are equal when the
\* investment amounts are; the base-plus-periodic ledgers when investment
\* amounts and base ratios are; the valuation ledgers when the thresholds are.
C14_LedgersDoNotInteract ==
    BothSucceeded =>
        LET p == first.params
            q == params
        IN  /\ LumpSumLedger(data) = LumpSumLedger(first.data)
            /\ p.investAmount = q.investAmount =>
                  PeriodicLedger(data) = PeriodicLedger(first.data)
            /\ (p.investAmount = q.investAmount /\ p.baseRatio = q.baseRatio) =>
                  BasePlusLedger(data) = BasePlusLedger(first.data)
            /\ (p.peLowerQuantile = q.peLowerQuantile
                 /\ p.peUpperQuantile = q.peUpperQuantile) =>
                  ValuationLedger(data) = ValuationLedger(first.data)

\* Two runs with another investment amount and base ratio have both traded
\* in the valuation band and differ in the periodic ledger.
C14_Witness ==
    /\ BothSucceeded
    /\ params.investAmount # first.params.investAmount
    /\ params.peLowerQuantile = first.params.peLowerQuantile
    /\ buy_sell_markers # <<>>
    /\ PeriodicLedger(data) # PeriodicLedger(first.data)

\* C15: an invocation with the records and parameters of the first one
\* returns what the first one returned (summary, chart data and logs, or the
\* same failure) and has written the same ledger, whether it is the next
\* invocation or one after a run with other parameters.
C15_SameInputsSameResult ==
    (calls >= 2 /\ pc = "done" /\ params = first.params) =>
        /\ result = first.result
        /\ data = first.data

\* The third invocation has returned, after a second one with other
\* parameters, a ledger in which the periodic strategy and the valuation band
\* have bought.
C15_Witness ==
    /\ calls = 3 /\ Succeeded
    /\ RLt(RZero, normal_invest_total)
    /\ buy_sell_markers # <<>>

\* C16: on day 0 the valuation band only establishes the base position:
\* after day 0 has been processed invested is min(capital * 0.5, capital), the
\* float shares are 0, and no TradeEvent is ever dated day 0.
C16_DayZeroOnlyBase ==
    /\ RowsDone(4) >= 1 =>
          /\ data[1].valuation_invest =
                 round_decimal(RMin(RMul(initial_capital, Rat(1, 2)),
                                    initial_capital))
          /\ \A n \in 1..Len(buy_sell_markers) :
                 buy_sell_markers[n].date # data[1].date
    /\ (Stage = 4 /\ RowsDone(4) = 1) => valuation_float_shares = RZero

\* C17: with lower <= upper, a step of the valuation band on a day whose
\* percentile is above upper while float shares are held sets the float shares
\* to 0, adds float_shares * price * (1 - fee) to the cash and leaves the base
\* shares and the invested amount unchanged; no step of the valuation band
\* changes the base shares.
C17_SellFrame ==
    [][pc = "valuation" =>
          /\ valuation_base_shares' = valuation_base_shares
          /\ (/\ idx <= Len(data)
              /\ RLe(pe_lower_quantile, pe_upper_quantile)
              /\ RLt(pe_upper_quantile, PeOf(idx))
              /\ RLt(RZero, valuation_float_shares)) =>
                /\ valuation_float_shares' = RZero
                /\ valuation_cash' =
                      RAdd(valuation_cash,
                           RMul(RMul(valuation_float_shares, Price(data[idx])),
                                RSub(RInt(1), fee_rate)))
                /\ valuation_total_invest' = valuation_total_invest
      ]_vars

\* The valuation band has just sold a float position bought on an earlier
\* day, with a fee on the proceeds.
C17_Witness ==
    /\ Stage = 4 /\ RowsDone(4) >= 2
    /\ data[RowsDone(4)].marker = "sell"
    /\ RLt(RZero, fee_rate)
    /\ valuation_float_shares = RZero
    /\ RLt(RZero, valuation_cash)
    /\ RLt(RZero, valuation_base_shares)

\* C18: in the periodic and in the base-plus-periodic strategy the cash is
\* never negative and invested + cash is the initial capital on every day,
\* and the cash never increases from one day to the next.
C18_CashNeverNegativeNorIncreasing ==
    [][/\ Stage' >= 2 =>
             /\ RLe(RZero, normal_available_cash')
             /\ RAdd(normal_invest_total', normal_available_cash')
                   = initial_capital
       /\ Stage' >= 3 =>
             /\ RLe(RZero, base_cash')
             /\ RAdd(base_total_invest', base_cash') = initial_capital
       /\ pc = "normal" => RLe(normal_available_cash', normal_available_cash)
       /\ pc = "base" => RLe(base_cash', base_cash)
      ]_vars

\* Both periodic loops have finished three days with cash left that is too
\* little for a further buy.
C18_Witness ==
    /\ Stage >= 4 /\ Len(data) = 3
    /\ RLt(RZero, normal_available_cash)
    /\ RLt(normal_available_cash, invest_amount)
    /\ RLt(RZero, base_cash) /\ RLt(base_cash, invest_amount)
    /\ RLt(RMul(initial_capital, base_ratio), base_total_invest)

\* profit and return of a strategy computed from its unrounded assets.
ProfitUnrounded(assets) == round_decimal(RSub(assets, initial_capital))
ReturnUnrounded(assets, denominator) ==
    round_decimal(RMul(RDiv(RSub(assets, initial_capital), denominator),
                       RInt(100)))

\* C19: every profit and return figure of the ledger is the two-decimal
\* half-up rounding of the quantity computed from unrounded intermediates:
\* profit is round2(unrounded assets - capital) and return% is
\* round2(unrounded profit / denominator * 100), for the row each strategy has
\* just written.
C19_RoundedFromUnrounded ==
    /\ RowsDone(1) >= 1 =>
          LET row == data[RowsDone(1)]
              assets == RMul(buy_once_shares, Price(row))
          IN  /\ row.buy_once_profit = ProfitUnrounded(assets)
              /\ row.buy_once_return = ReturnUnrounded(assets, initial_capital)
    /\ (RowsDone(2) >= 1 /\ RLt(RZero, normal_invest_total)) =>
          LET row == data[RowsDone(2)]
              assets == RAdd(RMul(normal_invest_shares, Price(row)),
                             normal_available_cash)
          IN  /\ row.normal_profit = ProfitUnrounded(assets)
              /\ row.normal_return =
                     ReturnUnrounded(assets, normal_invest_total)
    /\ RowsDone(3) >= 1 =>
          LET row == data[RowsDone(3)]
              assets == RAdd(RMul(RAdd(base_shares, float_shares), Price(row)),
                             base_cash)
          IN  /\ row.base_profit = ProfitUnrounded(assets)
              /\ row.base_return = ReturnUnrounded(assets, initial_capital)
    /\ (RowsDone(4) >= 1 /\ RLt(RZero, valuation_total_invest)) =>
          LET row == data[RowsDone(4)]
              assets == RAdd(RMul(RAdd(valuation_base_shares,
                                       valuation_float_shares), Price(row)),
                             valuation_cash)
          IN  /\ row.valuation_profit = ProfitUnrounded(assets)
              /\ row.valuation_return =
                     ReturnUnrounded(assets, valuation_total_invest)

RawFields == {"date", "close", "pe_quantile"}
LedgerFields == DOMAIN new_row([date |-> BadDate, close |-> 0, pe_quantile |-> 0])

\* C20: no step of run_strategy changes params or a record of raw_data: every
\* record read so far keeps the fields and values the caller gave it, and the
\* ledger fields exist only on the per-run copies.
C20_InputUnchanged ==
    [][/\ params' = params
       /\ \A i \in 1..Len(raw_data) : raw_data'[i] = raw_data[i]
       /\ \A i \in 1..Len(raw_data') : DOMAIN raw_data'[i] = RawFields
       /\ \A i \in 1..Len(data') : DOMAIN data'[i] = LedgerFields
      ]_vars

\* A run over three records, one of them outside the date range, has
\* returned a ledger in which every strategy has written its figures.
C20_Witness ==
    /\ Succeeded /\ Len(raw_data) = 3 /\ Len(data) = 2
    /\ data[2].normal_invest > 0
    /\ data[2].valuation_signal # ""
    /\ data[2].buy_once_assets # Capital100

\* The rows the valuation loop has written that carry a buy.
BuyRows == {i \in 1..RowsDone(4) : data[i].marker = "buy"}

\* C21: the valuation band buys at most once in a run: the buy deploys the
\* whole remaining half of the capital, so invested is the capital from then
\* on; a later day with percentile < lower is never a buy and, when cash is
\* held (after a sell), is marked fully invested with no trade; the
\* TradeEvents are at most one buy and at most one sell, the sell after the
\* buy.
C21_AtMostOneBuy ==
    /\ Cardinality(BuyRows) <= 1
    /\ Len(buy_sell_markers) <= 2
    /\ \A n \in 1..Len(buy_sell_markers) :
          buy_sell_markers[n].type = (IF n = 1 THEN "buy" ELSE "sell")
    /\ \A b \in BuyRows :
          /\ valuation_total_invest = initial_capital
          /\ \A i \in (b + 1)..RowsDone(4) :
                /\ data[i].valuation_invest = Capital100
                /\ RLt(PeOf(i), pe_lower_quantile) =>
                      /\ data[i].marker = ""
                      /\ data[i].valuation_signal # "buy"
          /\ (/\ Stage = 4 /\ RowsDone(4) > b
              /\ RLt(PeOf(RowsDone(4)), pe_lower_quantile)
              /\ RLt(RZero, valuation_cash)) =>
                data[RowsDone(4)].valuation_signal = "full"

\* The valuation band has bought, sold, and then met a day with percentile
\* < lower and cash from the sale, which it marked fully invested.
C21_Witness ==
    /\ Stage = 4 /\ RowsDone(4) = 3
    /\ data[1].marker = "buy" /\ data[2].marker = "sell"
    /\ RLt(PeOf(3), pe_lower_quantile)
    /\ RLt(RZero, valuation_cash)
    /\ data[3].valuation_signal = "full"

\* C22: on every day whose valuation percentile is 0 the valuation band
\* holds: the day carries no buy or sell, its signal is 'no valuation data'
\* and no TradeEvent is dated that day.
C22_NoTradeWithoutValuationData ==
    \A i \in 1..RowsDone(4) :
        data[i].pe_quantile = 0 =>
            /\ data[i].marker = ""
            /\ data[i].valuation_signal = "no_data"
            /\ \A n \in 1..Len(buy_sell_markers) :
                  buy_sell_markers[n].date # data[i].date

\* The positive values before index i (0-based).
EarlierPositives(list, i) == {list[j] : j \in 1..i} \cap {x \in Int : x > 0}
PositivesUpTo(list, i) == Cardinality({j \in 1..(i + 1) : list[j] > 0})

\* C23: every value calculate_pe_quantile returns is a whole number in
\* 0..100; at an index i >= 20 with at least 5 positive values in v[0..i],
\* q[i] is 0 when v[i] is <= every earlier positive value and 100 when v[i]
\* is strictly greater than every earlier positive value.
C23_WholeNumbersAndExtremes ==
    Returned =>
        \A i \in 0..(Len(pe_list) - 1) :
            /\ quantiles[i + 1] % 100 = 0
            /\ quantiles[i + 1] \div 100 \in 0..100
            /\ (i >= WarmUp /\ PositivesUpTo(pe_list, i) >= MinValid) =>
                  /\ (\A x \in EarlierPositives(pe_list, i) : pe_list[i + 1] <= x)
                        => quantiles[i + 1] = 0
                  /\ (\A x \in EarlierPositives(pe_list, i) : pe_list[i + 1] > x)
                        => quantiles[i + 1] = 10000

\* A series whose index 20 is a new maximum, ranked 100, and whose index 21
\* is a new minimum among the positive values, ranked 0.
C23_Witness ==
    /\ Returned /\ Len(pe_list) = WarmUp + 2
    /\ PositivesUpTo(pe_list, WarmUp) >= MinValid
    /\ \A x \in EarlierPositives(pe_list, WarmUp) : pe_list[WarmUp + 1] > x
    /\ quantiles[WarmUp + 1] = 10000
    /\ pe_list[WarmUp + 2] > 0
    /\ \A x \in EarlierPositives(pe_list, WarmUp + 1) : pe_list[WarmUp + 2] < x
    /\ quantiles[WarmUp + 2] = 0

=============================================================================
